---- MODULE Spec2Model ----
(***************************************************************************)
(* Session lifecycle engine of the Devin GitHub issues dashboard: the      *)
(* devinRouter procedures (analyzeIssue, getSessionStatus, resolveIssue,   *)
(* pollSession) over the DevinSession table, with the remote agent         *)
(* service as a black box.                                                 *)
(***************************************************************************)
EXTENDS Integers, Sequences, FiniteSets, TLC

(***************************************************************************)
(* Bounds of the model.                                                    *)
(***************************************************************************)
MaxSessions == 2      \* session ids the remote service can hand out
MaxTime     == 4      \* writes to the session table (value of new Date())
MaxAttempts == 1      \* largest maxAttempts passed to pollSession
MaxCallers  == 2      \* requests that can be in flight together
MaxMsgs     == 1      \* messages a session posts
MaxMockSessions == 2  \* sessions of the mock client

SessionIds == 1..MaxSessions
Callers    == 1..MaxCallers
Issues     == {"issue42"}
SessionTypes == {"analysis", "resolution"}

(***************************************************************************)
(* JavaScript values as far as the validators look at them.  The state     *)
(* holds a value by name; JsValue gives its type, its string and, for an   *)
(* object, the fields of the two result shapes.  A field is undefined, a   *)
(* string or a number.                                                     *)
(***************************************************************************)
FieldNames ==
  {"type", "complexity", "confidence_score", "strategy", "scope_analysis",
   "reasoning", "summary", "pull_request_url"}

Undef  == [t |-> "undefined", s |-> "", n |-> 0]
Null   == [t |-> "null", s |-> "", n |-> 0]
Str(x) == [t |-> "string", s |-> x, n |-> 0]
Num(x) == [t |-> "number", s |-> "", n |-> x]

NoFields == [f \in FieldNames |-> Undef]
Obj(fs)  == [t |-> "object", s |-> "", o |-> fs]

AnalysisFields(ty, cx, score) ==
  [f \in FieldNames |->
     CASE f = "type"             -> Str(ty)
       [] f = "complexity"       -> Str(cx)
       [] f = "confidence_score" -> Num(score)
       [] f = "strategy"         -> Str("strategy")
       [] f = "scope_analysis"   -> Str("scope")
       [] f = "reasoning"        -> Str("reasoning")
       [] OTHER                  -> Undef]

ResolutionFields ==
  [f \in FieldNames |->
     CASE f = "summary"          -> Str("summary")
       [] f = "pull_request_url" -> Str("url")
       [] OTHER                  -> Undef]

Undefined    == "undefined"
NullValue    == "null"
\* Payloads the remote service can attach to a response.
AnalysisA    == "analysis_85"
AnalysisOver == "analysis_101"
ResolutionR  == "resolution"
NotJson      == "not json"

StructuredOutputs == {Undefined, AnalysisA, AnalysisOver, ResolutionR, NotJson}

\* An output that has the fields of an analysis and those of a resolution.
AnalysisWithSummary == "analysis_85 with summary"

\* Results of the mock client: a second analysis, and the results as
\* JSON.stringify writes them.
AnalysisMid     == "analysis_65"
AnalysisJson    == "json of analysis_85"
AnalysisMidJson == "json of analysis_65"
ResolutionJson  == "json of resolution"
MockOutputs     == {AnalysisMid, AnalysisJson, AnalysisMidJson, ResolutionJson}

JsValues ==
  [v \in StructuredOutputs \cup MockOutputs
          \cup {AnalysisWithSummary, NullValue} |->
     CASE v = Undefined    -> [t |-> "undefined", s |-> "", o |-> NoFields]
       [] v = NullValue    -> [t |-> "null", s |-> "", o |-> NoFields]
       [] v = AnalysisA    -> Obj(AnalysisFields("bug", "low", 85))
       [] v = AnalysisOver -> Obj(AnalysisFields("bug", "low", 101))
       [] v = ResolutionR  -> Obj(ResolutionFields)
       [] v = NotJson      -> [t |-> "string", s |-> "not json", o |-> NoFields]
       [] v = AnalysisMid  -> Obj(AnalysisFields("enhancement", "medium", 65))
       [] v = AnalysisWithSummary ->
            Obj([f \in FieldNames |->
                   IF ResolutionFields[f] # Undef THEN ResolutionFields[f]
                   ELSE AnalysisFields("bug", "low", 85)[f]])
       [] v = AnalysisJson -> [t |-> "string", s |-> "{analysis_85}", o |-> NoFields]
       [] v = AnalysisMidJson ->
            [t |-> "string", s |-> "{analysis_65}", o |-> NoFields]
       [] v = ResolutionJson ->
            [t |-> "string", s |-> "{resolution}", o |-> NoFields]]

JsValue(v) == JsValues[v]

\* JavaScript truthiness of a value: undefined, null and "" are falsy.
TruthyValue(x) ==
  \/ x.t = "object"
  \/ x.t = "string" /\ x.s # ""

Truthy(v) == TruthyValue(JsValue(v))

(***************************************************************************)
(* Status vocabulary and the helpers of lib/utils.                         *)
(***************************************************************************)
DevinStatusEnum ==
  {"working", "blocked", "expired", "finished", "suspend_requested",
   "suspend_requested_frontend", "resume_requested",
   "resume_requested_frontend", "resumed"}

\* status_enum missing from a response (null / undefined)
NoStatus == "null"

\* A helper that knows "working" only, as the findFirst filters do.
isDevinSessionRunningWorkingOnly(statusEnum) ==
  IF statusEnum = NoStatus THEN FALSE ELSE statusEnum = "working"

isDevinSessionRunning(statusEnum) ==
  IF statusEnum = NoStatus THEN FALSE
  ELSE statusEnum \in {"working", "resumed", "suspend_requested",
                       "suspend_requested_frontend", "resume_requested",
                       "resume_requested_frontend"}

isDevinSessionComplete(statusEnum) ==
  IF statusEnum = NoStatus THEN FALSE
  ELSE statusEnum \in {"finished", "expired", "blocked"}

(***************************************************************************)
(* Validators of the Devin client and the input schema of resolveIssue.    *)
(***************************************************************************)
AnalysisTypes ==
  {"bug", "feature", "documentation", "enhancement", "maintenance", "question"}
Complexities == {"low", "medium", "high"}

IsString(x) == x.t = "string"
IsNumber(x) == x.t = "number"

\* A validator that has no upper bound on the score.
ValidAnalysisNoUpperBound(x) ==
  IF ~TruthyValue(x) \/ x.t # "object" THEN FALSE
  ELSE LET r == x.o IN
       /\ IsString(r["type"]) /\ r["type"].s \in AnalysisTypes
       /\ IsString(r["complexity"]) /\ r["complexity"].s \in Complexities
       /\ IsNumber(r["confidence_score"])
       /\ r["confidence_score"].n >= 0
       /\ IsString(r["strategy"])
       /\ IsString(r["scope_analysis"])
       /\ IsString(r["reasoning"])

\* The body of isValidAnalysisResult, on the value itself.
ValidAnalysisValue(x) ==
  IF ~TruthyValue(x) \/ x.t # "object" THEN FALSE
  ELSE LET r == x.o IN
       /\ IsString(r["type"]) /\ r["type"].s \in AnalysisTypes
       /\ IsString(r["complexity"]) /\ r["complexity"].s \in Complexities
       /\ IsNumber(r["confidence_score"])
       /\ r["confidence_score"].n >= 0
       /\ r["confidence_score"].n <= 100
       /\ IsString(r["strategy"])
       /\ IsString(r["scope_analysis"])
       /\ IsString(r["reasoning"])

isValidAnalysisResult(result) == ValidAnalysisValue(JsValue(result))

isValidResolutionResult(result) ==
  IF ~Truthy(result) \/ JsValue(result).t # "object" THEN FALSE
  ELSE LET r == JsValue(result).o IN
       /\ IsString(r["summary"])
       /\ (r["pull_request_url"] = Undef \/ IsString(r["pull_request_url"]))

\* z.object({... analysisResult: z.object({...}) }) of resolveIssue
AnalysisSchemaValue(x) ==
  LET r == x.o IN
  /\ x.t = "object"
  /\ IsString(r["type"]) /\ r["type"].s \in AnalysisTypes
  /\ IsString(r["complexity"]) /\ r["complexity"].s \in Complexities
  /\ IsNumber(r["confidence_score"])
  /\ r["confidence_score"].n >= 0 /\ r["confidence_score"].n <= 100
  /\ IsString(r["strategy"])
  /\ IsString(r["scope_analysis"])
  /\ IsString(r["reasoning"])

analysisResultSchema(v) == AnalysisSchemaValue(JsValue(v))

(***************************************************************************)
(* State.                                                                  *)
(*   store    the DevinSession table: sessionId -> row                     *)
(*   remote   sessions known to the agent service: sessionId -> the prompt *)
(*            it was created from and the number of messages it has posted *)
(*   now      value of the next new Date()                                 *)
(*   pc, loc  position and locals of each request in flight                *)
(*   ret      the request that completed last and what it returned         *)
(*   ui       the state of the browser: the components that poll           *)
(*   mock     the mock client: its sessions and its polling loop           *)
(*   probe    the value a validator was last called with, and its answers  *)
(***************************************************************************)
VARIABLES store, remote, now, pc, loc, ret, ui, mock, probe

vars == <<store, remote, now, pc, loc, ret, ui, mock, probe>>

\* seen is the number of messages the session had posted when a
\* getSessionStatus request fetched it; newer holds the requests that fetched
\* the same session after this one did, and overtaken says that one of them
\* has written its row.
NoLoc ==
  [issue |-> "", sid |-> 0, arg |-> 0, analysis |-> Undefined,
   attempts |-> 0, maxAttempts |-> 0, noRunning |-> FALSE,
   seen |-> 0, newer |-> {}, overtaken |-> FALSE]

\* op, caller, issue and noRunning (no running session of the kind was in
\* the table when the request read it) describe the request; error is the
\* call that threw ("" when the request returned) and the other fields are
\* the value returned; again says that a getSessionStatus request got the
\* response the request before it had got for the same session.
NoRet ==
  [op |-> "none", caller |-> 0, issue |-> "", noRunning |-> FALSE,
   again |-> FALSE, error |-> "", sessionId |-> 0,
   alreadyRunning |-> FALSE, status_enum |-> NoStatus,
   structured_output |-> Undefined,
   result |-> NullValue, confidenceScore |-> Null]

\* Dashboard: useState<DevinSessionResponse | null>(null)
NoCurrentSession == [session_id |-> 0, status |-> "", status_enum |-> NoStatus]

\* A browser tab that shows the component named, as it is when the
\* component has mounted ("": the tab is closed).
\*   current    currentSession of Dashboard
\*   sessionId  the sessionId prop of SessionProgress (0: none yet)
\*   isPolling  isPolling of SessionProgress
\*   sessions   sessionsData of useSessionManager: the rows as the
\*              sessions query last returned them
\*   refetch    the sessions query of useSessionManager is fetching
\*   answered   the session the last analyzeIssue mutation of the
\*              component was answered with alreadyRunning (0: none)
\*   isAnalyzing  state.isAnalyzing of useSessionManager
NoTab(component) ==
  [component |-> component,
   current |-> NoCurrentSession,
   sessionId |-> 0,
   isPolling |-> FALSE,
   sessions |-> << >>,
   refetch |-> FALSE,
   answered |-> 0,
   isAnalyzing |-> FALSE]

\* result.alreadyRunning of the mutation that has just returned
AlreadyRunningAnswer(was, idle, r) ==
  IF ~idle THEN was
  ELSE IF r.error = "" /\ r.alreadyRunning THEN r.sessionId ELSE 0

NoUI == [c \in Callers |-> NoTab("")]

Threw(r, call) == [r EXCEPT !.error = call]
Ok(r) == r.op # "none" /\ r.error = ""

\* The transcript of a session that has posted n messages.
MessageLog(n) == [k \in 1..n |-> k]
NoMessages == [present |-> FALSE, log |-> << >>]
\* The message list of a response: absent, or the session's transcript.
MessageOptions(n) == {NoMessages, [present |-> TRUE, log |-> MessageLog(n)]}

\* A response of the remote getSession for a session that has posted n
\* messages: the service is a black box, so any status and any payload can
\* come back for a session it knows.
ResponsesWith(n) ==
  [status_enum : DevinStatusEnum \cup {NoStatus},
   structured_output : StructuredOutputs,
   messages : MessageOptions(n)]

Responses(rem, sid) == ResponsesWith(rem[sid].messages)

\* The prompt a session was created from (generateAnalysisPrompt /
\* generateResolutionPrompt are functions of the issue and the analysis).
AnalysisPrompt(i)      == [type |-> "analysis", issue |-> i, analysis |-> Undefined]
ResolutionPrompt(i, a) == [type |-> "resolution", issue |-> i, analysis |-> a]

\* db.devinSession.findFirst({ where: { issueId, type, status: "working" } })
WorkingSessions(st, i, ty) ==
  {s \in DOMAIN st :
     st[s].issueId = i /\ st[s].type = ty /\ st[s].status = "working"}

\* Rows of (issue, type) whose stored status is a running sub-state.
RunningSessions(st, i, ty) ==
  {s \in DOMAIN st :
     st[s].issueId = i /\ st[s].type = ty /\ isDevinSessionRunning(st[s].status)}

\* Ids createSession({ prompt, idempotent: true }) can answer with: a new
\* id, or the id of an earlier session created from the same prompt.
CreateSessionIds(rem, prompt) ==
  (IF SessionIds \ DOMAIN rem = {} THEN {}
   ELSE {CHOOSE s \in SessionIds \ DOMAIN rem :
           \A u \in SessionIds \ DOMAIN rem : s <= u})
  \cup {s \in DOMAIN rem : rem[s].prompt = prompt}

\* The service's sessions after createSession answered with sid.
CreateSession(rem, sid, prompt) ==
  IF sid \in DOMAIN rem THEN rem
  ELSE [s \in DOMAIN rem \cup {sid} |->
          IF s = sid THEN [prompt |-> prompt, messages |-> 0] ELSE rem[s]]

\* The session posts a message (the service's side; addMessage of the mock).
AddMessage(sid) ==
  /\ sid \in DOMAIN remote
  /\ remote[sid].messages < MaxMsgs
  /\ remote' = [remote EXCEPT ![sid].messages = @ + 1]
  /\ UNCHANGED <<store, now, pc, loc, ret>>

\* db.devinSession.upsert({ where: { sessionId }, update: { updatedAt },
\*                          create: { sessionId, issueId, type, status, messages } })
Upsert(st, sid, i, ty, t) ==
  IF sid \in DOMAIN st
  THEN [st EXCEPT ![sid].updatedAt = t]
  ELSE [s \in DOMAIN st \cup {sid} |->
          IF s = sid
          THEN [issueId |-> i, type |-> ty, status |-> "working",
                result |-> NullValue, confidenceScore |-> Null,
                messages |-> << >>, createdAt |-> t, updatedAt |-> t]
          ELSE st[s]]

Return(c, r) ==
  /\ pc' = [pc EXCEPT ![c] = "idle"]
  /\ loc' = [loc EXCEPT ![c] = NoLoc]
  /\ ret' = [r EXCEPT !.caller = c]

\* The mock client before the factory has chosen it: revision names the
\* text of the module (lib/devin-mock.ts, or the MockDevinClient listed with
\* lib/devin-factory.ts), sessions is its Map in the order of sessionCounter,
\* last is the latest answer of getSession.
NoMockResponse ==
  [session_id |-> 0, status |-> "", status_enum |-> NoStatus,
   structured_output |-> Undefined, messages |-> 0, error |-> ""]

\* The call of pollSession in progress on the mock client, or the outcome of
\* the latest one: state is "none", "running", "returned", "blocked",
\* "timeout" or "not found".
NoMockPoll == [sid |-> 0, attempts |-> 0, maxAttempts |-> 0, state |-> "none"]

\* No validator has been called yet.
NoProbe == [op |-> "", input |-> [t |-> "undefined", s |-> "", o |-> NoFields],
            accepted |-> FALSE]

NoMock ==
  [revision |-> "", sessions |-> << >>, last |-> NoMockResponse,
   poll |-> NoMockPoll]

Init ==
  /\ mock = NoMock
  /\ probe = NoProbe
  /\ store = << >>
  /\ remote = << >>
  /\ now = 1
  /\ pc = [c \in Callers |-> "idle"]
  /\ loc = [c \in Callers |-> NoLoc]
  /\ ret = NoRet
  /\ ui = NoUI

(***************************************************************************)
(* analyzeIssue                                                            *)
(***************************************************************************)
AnalyzeRet(i) == [NoRet EXCEPT !.op = "analyzeIssue", !.issue = i]

\* A catch block that marks the sessions as failed before it rethrows, as
\* the catch block of pollSession does.
AnalyzeCatchMarksFailed(c, i, call) ==
  /\ Return(c, Threw(AnalyzeRet(i), call))
  /\ store' = [s \in DOMAIN store |-> [store[s] EXCEPT !.status = "failed"]]
  /\ UNCHANGED now

\* the catch block: log and rethrow
AnalyzeCatch(c, i, call) ==
  /\ Return(c, Threw(AnalyzeRet(i), call))
  /\ UNCHANGED <<store, now>>

\* githubClient.getIssue, db.issue.findUnique and the findFirst for a
\* running analysis session.
AnalyzeCheck(c, i) ==
  /\ pc[c] = "idle"
  /\ UNCHANGED remote
  /\ \/ AnalyzeCatch(c, i, "getIssue")
     \/ \E s \in WorkingSessions(store, i, "analysis") :
          /\ Return(c, [AnalyzeRet(i) EXCEPT
                          !.sessionId = s, !.alreadyRunning = TRUE,
                          !.noRunning =
                             (RunningSessions(store, i, "analysis") = {})])
          /\ UNCHANGED <<store, now>>
     \/ /\ WorkingSessions(store, i, "analysis") = {}
        /\ pc' = [pc EXCEPT ![c] = "analyze_create"]
        /\ loc' = [loc EXCEPT ![c] =
                     [NoLoc EXCEPT !.issue = i,
                                   !.noRunning =
                                      (RunningSessions(store, i, "analysis") = {})]]
        /\ UNCHANGED <<store, now, ret>>

\* devinClient.analyzeIssue(githubIssue)
AnalyzeCreate(c) ==
  /\ pc[c] = "analyze_create"
  /\ \/ /\ AnalyzeCatch(c, loc[c].issue, "createSession")
        /\ UNCHANGED remote
     \/ \E sid \in CreateSessionIds(remote, AnalysisPrompt(loc[c].issue)) :
          /\ remote' = CreateSession(remote, sid, AnalysisPrompt(loc[c].issue))
          /\ pc' = [pc EXCEPT ![c] = "analyze_upsert"]
          /\ loc' = [loc EXCEPT ![c].sid = sid]
          /\ UNCHANGED <<store, now, ret>>

\* db.devinSession.upsert and the return of { sessionId, alreadyRunning: false }
AnalyzeUpsert(c) ==
  /\ pc[c] = "analyze_upsert"
  /\ now < MaxTime
  /\ store' = Upsert(store, loc[c].sid, loc[c].issue, "analysis", now)
  /\ now' = now + 1
  /\ UNCHANGED remote
  /\ Return(c, [AnalyzeRet(loc[c].issue) EXCEPT
                  !.sessionId = loc[c].sid,
                  !.noRunning = loc[c].noRunning])

(***************************************************************************)
(* getSessionStatus                                                        *)
(***************************************************************************)
\* the condition of the "if session is complete" block
HasCompleteOutput(resp) ==
  /\ resp.status_enum # NoStatus
  /\ isDevinSessionComplete(resp.status_enum)
  /\ Truthy(resp.structured_output)

\* The handling of the earlier revision of the router: the payload went
\* through JSON.parse inside a try block, and a string that does not parse
\* left the result null.
StatusResultParsed(resp) ==
  IF HasCompleteOutput(resp) /\ JsValue(resp.structured_output).t = "object"
  THEN resp.structured_output
  ELSE NullValue

StatusResult(resp) ==
  IF HasCompleteOutput(resp)
  THEN IF isValidAnalysisResult(resp.structured_output)
       THEN resp.structured_output
       ELSE IF isValidResolutionResult(resp.structured_output)
            THEN resp.structured_output
            ELSE resp.structured_output
  ELSE NullValue

\* A score taken from any object that carries a number, validated or not.
StatusConfidenceUnchecked(resp) ==
  IF /\ HasCompleteOutput(resp)
     /\ JsValue(resp.structured_output).t = "object"
     /\ IsNumber(JsValue(resp.structured_output).o["confidence_score"])
  THEN JsValue(resp.structured_output).o["confidence_score"]
  ELSE Null

StatusConfidence(resp) ==
  IF HasCompleteOutput(resp) /\ isValidAnalysisResult(resp.structured_output)
  THEN JsValue(resp.structured_output).o["confidence_score"]
  ELSE Null

\* A status inferred from the payload when the response has none.
SessionStatusFromOutput(resp) ==
  IF resp.status_enum = NoStatus
  THEN IF Truthy(resp.structured_output) THEN "finished" ELSE "working"
  ELSE resp.status_enum

\* devinSession.status_enum ?? "working"
SessionStatus(resp) ==
  IF resp.status_enum = NoStatus THEN "working" ELSE resp.status_enum

\* An update that adds the messages of the response to the stored log.
StatusUpdateAppends(st, sid, resp, t) ==
  [st EXCEPT ![sid] =
     [@ EXCEPT !.status = SessionStatus(resp),
               !.result = StatusResult(resp),
               !.messages = IF resp.messages.present
                            THEN @ \o resp.messages.log ELSE @,
               !.confidenceScore = StatusConfidence(resp),
               !.updatedAt = t]]

\* An update that writes the messages field whether the response has one
\* or not.
StatusUpdateClearsMessages(st, sid, resp, t) ==
  [st EXCEPT ![sid] =
     [@ EXCEPT !.status = SessionStatus(resp),
               !.result = StatusResult(resp),
               !.messages = resp.messages.log,
               !.confidenceScore = StatusConfidence(resp),
               !.updatedAt = t]]

\* An update that also sets the type of the row from the shape of the
\* result.
StatusUpdateSetsType(st, sid, resp, t) ==
  [st EXCEPT ![sid] =
     [@ EXCEPT !.status = SessionStatus(resp),
               !.result = StatusResult(resp),
               !.type = IF isValidResolutionResult(StatusResult(resp))
                        THEN "resolution" ELSE @,
               !.messages = IF resp.messages.present
                            THEN resp.messages.log ELSE @,
               !.confidenceScore = StatusConfidence(resp),
               !.updatedAt = t]]

\* db.devinSession.update of getSessionStatus
\* An update that also stamps every other row of the table.
StatusUpdateTouchesAll(st, sid, resp, t) ==
  [s \in DOMAIN st |->
     IF s = sid
     THEN [st[s] EXCEPT !.status = SessionStatus(resp),
                        !.result = StatusResult(resp),
                        !.messages = IF resp.messages.present
                                     THEN resp.messages.log ELSE @,
                        !.confidenceScore = StatusConfidence(resp),
                        !.updatedAt = t]
     ELSE [st[s] EXCEPT !.updatedAt = t]]

StatusUpdate(st, sid, resp, t) ==
  [st EXCEPT ![sid] =
     [@ EXCEPT !.status = SessionStatus(resp),
               !.result = StatusResult(resp),
               !.messages = IF resp.messages.present
                            THEN resp.messages.log ELSE @,
               !.confidenceScore = StatusConfidence(resp),
               !.updatedAt = t]]

StatusRet(sid) == [NoRet EXCEPT !.op = "getSessionStatus", !.sessionId = sid]

\* { ...devinSession, status_enum: sessionStatus, result, confidenceScore, issue }
StatusResponse(sid, i, resp) ==
  [StatusRet(sid) EXCEPT
     !.issue = i,
     !.status_enum = SessionStatus(resp),
     !.structured_output = resp.structured_output,
     !.result = StatusResult(resp),
     !.confidenceScore = StatusConfidence(resp)]

\* resp is what the last request, a getSessionStatus of sid, was answered.
SameResponse(sid, resp) ==
  /\ ret.op = "getSessionStatus" /\ ret.error = "" /\ ret.sessionId = sid
  /\ ret.status_enum = SessionStatus(resp)
  /\ ret.structured_output = resp.structured_output
  /\ resp.messages.present => store[sid].messages = resp.messages.log

\* A getSessionStatus that gives a session the service knows a row when the
\* table has none.
GetSessionStatusCreatesRow(c, sid) ==
  /\ pc[c] = "idle"
  /\ UNCHANGED remote
  /\ sid \in DOMAIN remote
  /\ sid \notin DOMAIN store
  /\ now < MaxTime
  /\ store' = Upsert(store, sid, remote[sid].prompt.issue,
                     remote[sid].prompt.type, now)
  /\ now' = now + 1
  /\ Return(c, StatusRet(sid))

\* getSessionStatus(sid) when devinClient.getSession answers resp and the
\* session has its row.
StatusAnswered(c, sid, resp) ==
  /\ pc[c] = "idle"
  /\ UNCHANGED remote
  /\ sid \in DOMAIN remote
  /\ sid \in DOMAIN store
  /\ now < MaxTime
  /\ store' = StatusUpdate(store, sid, resp, now)
  /\ now' = now + 1
  /\ Return(c, [StatusResponse(sid, store[sid].issueId, resp)
                  EXCEPT !.again = SameResponse(sid, resp)])

GetSessionStatus(c, sid) ==
  /\ pc[c] = "idle"
  /\ UNCHANGED remote
  /\ \/ \* devinClient.getSession throws
        /\ Return(c, Threw(StatusRet(sid), "getSession"))
        /\ UNCHANGED <<store, now>>
     \/ \* the session has no row in the table
        /\ sid \in DOMAIN remote
        /\ sid \notin DOMAIN store
        /\ Return(c, Threw(StatusRet(sid), "findUnique"))
        /\ UNCHANGED <<store, now>>
     \/ /\ sid \in DOMAIN remote
        /\ \E resp \in Responses(remote, sid) : StatusAnswered(c, sid, resp)

\* getSessionStatus in two steps, for requests that interleave: the fetch
\* (devinClient.getSession and the findUnique), then the update and return.
\* The status and the payload of a response depend on nothing the model
\* holds, so the request keeps what the response does depend on (the
\* messages posted at the time of the fetch) and the rest of the response
\* is drawn when it is used.
StatusFetch(c, sid) ==
  /\ pc[c] = "idle"
  /\ UNCHANGED remote
  /\ \/ /\ Return(c, Threw(StatusRet(sid), "getSession"))
        /\ UNCHANGED <<store, now>>
     \/ /\ sid \in DOMAIN remote
        /\ sid \notin DOMAIN store
        /\ Return(c, Threw(StatusRet(sid), "findUnique"))
        /\ UNCHANGED <<store, now>>
     \/ /\ sid \in DOMAIN remote
        /\ sid \in DOMAIN store
        /\ pc' = [pc EXCEPT ![c] = "status_write"]
        /\ loc' = [d \in Callers |->
                     IF d = c
                     THEN [NoLoc EXCEPT !.sid = sid,
                                        !.seen = remote[sid].messages]
                     ELSE IF pc[d] = "status_write" /\ loc[d].sid = sid
                          THEN [loc[d] EXCEPT !.newer = @ \cup {c}]
                          ELSE loc[d]]
        /\ UNCHANGED <<store, now, ret>>

StatusWrite(c) ==
  /\ pc[c] = "status_write"
  /\ now < MaxTime
  /\ \E resp \in ResponsesWith(loc[c].seen) :
       /\ store' = StatusUpdate(store, loc[c].sid, resp, now)
       /\ ret' = [StatusResponse(loc[c].sid, store[loc[c].sid].issueId, resp)
                    EXCEPT !.caller = c]
  /\ now' = now + 1
  /\ pc' = [pc EXCEPT ![c] = "idle"]
  /\ loc' = [d \in Callers |->
               IF d = c THEN NoLoc
               ELSE IF pc[d] = "status_write" /\ c \in loc[d].newer
                    THEN [loc[d] EXCEPT !.overtaken = TRUE]
                    ELSE loc[d]]
  /\ UNCHANGED remote

(***************************************************************************)
(* resolveIssue                                                            *)
(***************************************************************************)
ResolveRet(i) == [NoRet EXCEPT !.op = "resolveIssue", !.issue = i]

\* the catch block: log and rethrow
ResolveCatch(c, i, call) ==
  /\ Return(c, Threw(ResolveRet(i), call))
  /\ UNCHANGED <<store, now>>

\* input validation, findUnique of the analysis session, findFirst for a
\* running resolution session, githubClient.getIssue
ResolveCheck(c, arg, analysis) ==
  /\ pc[c] = "idle"
  /\ UNCHANGED remote
  /\ \/ /\ ~analysisResultSchema(analysis)
        /\ ResolveCatch(c, "", "input")
     \/ /\ analysisResultSchema(analysis)
        /\ arg \notin DOMAIN store
        /\ ResolveCatch(c, "", "findUnique")
     \/ /\ analysisResultSchema(analysis)
        /\ arg \in DOMAIN store
        /\ LET i == store[arg].issueId IN
           \/ \E s \in WorkingSessions(store, i, "resolution") :
                /\ Return(c, [ResolveRet(i) EXCEPT
                                !.sessionId = s, !.alreadyRunning = TRUE,
                                !.noRunning =
                                   (RunningSessions(store, i, "resolution") = {})])
                /\ UNCHANGED <<store, now>>
           \/ /\ WorkingSessions(store, i, "resolution") = {}
              /\ ResolveCatch(c, i, "getIssue")
           \/ /\ WorkingSessions(store, i, "resolution") = {}
              /\ pc' = [pc EXCEPT ![c] = "resolve_create"]
              /\ loc' = [loc EXCEPT ![c] =
                           [NoLoc EXCEPT !.issue = i, !.arg = arg,
                                         !.analysis = analysis,
                                         !.noRunning =
                                            (RunningSessions(store, i, "resolution") = {})]]
              /\ UNCHANGED <<store, now, ret>>

\* devinClient.resolveIssue(githubIssue, input.analysisResult)
ResolveCreate(c) ==
  /\ pc[c] = "resolve_create"
  /\ \/ /\ ResolveCatch(c, loc[c].issue, "createSession")
        /\ UNCHANGED remote
     \/ \E sid \in CreateSessionIds(remote,
                     ResolutionPrompt(loc[c].issue, loc[c].analysis)) :
          /\ remote' = CreateSession(remote, sid,
                          ResolutionPrompt(loc[c].issue, loc[c].analysis))
          /\ pc' = [pc EXCEPT ![c] = "resolve_upsert"]
          /\ loc' = [loc EXCEPT ![c].sid = sid]
          /\ UNCHANGED <<store, now, ret>>

\* db.devinSession.upsert and the return of { sessionId, alreadyRunning: false }
ResolveUpsert(c) ==
  /\ pc[c] = "resolve_upsert"
  /\ now < MaxTime
  /\ store' = Upsert(store, loc[c].sid, loc[c].issue, "resolution", now)
  /\ now' = now + 1
  /\ UNCHANGED remote
  /\ Return(c, [ResolveRet(loc[c].issue) EXCEPT
                  !.sessionId = loc[c].sid,
                  !.noRunning = loc[c].noRunning])

(***************************************************************************)
(* pollSession: the loop of DevinClient.pollSession, then the update of    *)
(* the router (or the update of its catch block).                          *)
(***************************************************************************)
PollRet(sid) == [NoRet EXCEPT !.op = "pollSession", !.sessionId = sid]

\* data of the update after devinClient.pollSession returned `resp`;
\* Prisma leaves a field alone when its value is undefined.
PollUpdate(st, sid, resp, t) ==
  [st EXCEPT ![sid] =
     [@ EXCEPT !.status = IF isDevinSessionComplete(resp.status_enum)
                          THEN "finished" ELSE "expired",
               !.result = IF resp.structured_output = Undefined
                          THEN @ ELSE resp.structured_output,
               !.updatedAt = t]]

\* data of the update in the catch block
PollFailUpdate(st, sid, t) ==
  [st EXCEPT ![sid] = [@ EXCEPT !.status = "failed", !.updatedAt = t]]

PollStart(c, sid, maxAttempts) ==
  /\ pc[c] = "idle"
  /\ pc' = [pc EXCEPT ![c] = "poll"]
  /\ loc' = [loc EXCEPT ![c] =
               [NoLoc EXCEPT !.sid = sid, !.maxAttempts = maxAttempts]]
  /\ UNCHANGED <<store, remote, now, ret>>

\* the catch block: mark the session as failed, then throw
PollCatch(c, call) ==
  /\ IF loc[c].sid \in DOMAIN store
     THEN /\ now < MaxTime
          /\ store' = PollFailUpdate(store, loc[c].sid, now)
          /\ now' = now + 1
     ELSE UNCHANGED <<store, now>>
  /\ Return(c, Threw(PollRet(loc[c].sid), call))

\* one pass of the while loop
PollAttempt(c) ==
  /\ pc[c] = "poll"
  /\ loc[c].attempts < loc[c].maxAttempts
  /\ UNCHANGED remote
  /\ \/ PollCatch(c, "getSession")
     \/ /\ loc[c].sid \in DOMAIN remote
        /\ \E resp \in Responses(remote, loc[c].sid) :
             IF resp.status_enum \in {"finished", "expired"}
             THEN IF loc[c].sid \in DOMAIN store
                  THEN /\ now < MaxTime
                       /\ store' = PollUpdate(store, loc[c].sid, resp, now)
                       /\ now' = now + 1
                       /\ Return(c, [PollRet(loc[c].sid) EXCEPT
                                       !.status_enum = resp.status_enum,
                                       !.structured_output = resp.structured_output])
                  ELSE PollCatch(c, "update")
             ELSE IF resp.status_enum = "blocked"
                  THEN PollCatch(c, "blocked")
                  ELSE /\ loc' = [loc EXCEPT ![c].attempts = @ + 1]
                       /\ UNCHANGED <<store, now, pc, ret>>

\* the loop ran out of attempts
PollTimeout(c) ==
  /\ pc[c] = "poll"
  /\ loc[c].attempts >= loc[c].maxAttempts
  /\ UNCHANGED remote
  /\ PollCatch(c, "timeout")

(***************************************************************************)
(* Decisions of the presentation layer.                                    *)
(***************************************************************************)
\* Display labels (DevinSessionResponse.status) a session can carry.
StatusLabels ==
  {"running", "stopped", "blocked", "Working on analysis",
   "Blocked waiting for input", "Analysis complete"}

\* useSessionPolling: the `enabled` option of the status query
SessionPollingEnabled(label, statusEnum) ==
  label = "running" \/ statusEnum = "working"

\* Dashboard.handleSessionUpdate: the session list is refreshed
SessionCompleted(label) == label = "stopped" \/ label = "blocked"

\* isAnalysisResult of lib/utils
isAnalysisResult(result) ==
  /\ JsValue(result).t = "object"
  /\ IsString(JsValue(result).o["type"])
  /\ IsString(JsValue(result).o["complexity"])
  /\ IsNumber(JsValue(result).o["confidence_score"])
  /\ IsString(JsValue(result).o["strategy"])
  /\ IsString(JsValue(result).o["scope_analysis"])
  /\ IsString(JsValue(result).o["reasoning"])

\* isResolutionResult of lib/utils
isResolutionResult(result) ==
  /\ JsValue(result).t = "object"
  /\ IsString(JsValue(result).o["summary"])
  /\ \/ JsValue(result).o["pull_request_url"] = Undef
     \/ IsString(JsValue(result).o["pull_request_url"])

\* ResolveTab: canResolve of the latest analysis session
canResolve(status, result) ==
  /\ isDevinSessionComplete(status)
  /\ Truthy(result)
  /\ isAnalysisResult(result)

\* ResolveTab: the Retry Resolution button is shown for the latest
\* resolution session
RetryOffered(status, result) ==
  /\ ~isDevinSessionRunning(status)
  /\ ~(Truthy(result) /\ isDevinSessionComplete(status)
         /\ isResolutionResult(result))
  /\ status = "expired"

(***************************************************************************)
(* The components that poll.  A tab shows one of them; its mutations are   *)
(* the requests of the caller of its number, and its status queries are    *)
(* requests of their own.                                                  *)
(***************************************************************************)
Components == {"Dashboard", "SessionProgress", "useSessionManager"}

\* The tab is opened; useSessionManager fetches the session list.
OpenTab(c, component) ==
  /\ ui[c].component = ""
  /\ ui' = [ui EXCEPT ![c] =
              [NoTab(component) EXCEPT
                 !.refetch = (component = "useSessionManager")]]
  /\ UNCHANGED <<store, remote, now, pc, loc, ret>>

\* The tab is closed or the page is left; no mutation is pending.
CloseTab(c) ==
  /\ ui[c].component # ""
  /\ pc[c] = "idle"
  /\ ui' = [ui EXCEPT ![c] = NoTab("")]
  /\ UNCHANGED <<store, remote, now, pc, loc, ret>>

\* Responses a status query of a component is answered with.  What the
\* components decide depends on the status and the label alone: the
\* statuses are two running and two terminal ones, the payload and the
\* message list are left out, and the label is one the components test
\* for or one of the descriptive labels.
PolledStatuses == {"working", "resumed", "finished", "blocked"}
PolledLabels == {"running", "stopped", "Analysis complete"}

PolledResponses ==
  {r \in ResponsesWith(0) :
     /\ r.status_enum \in PolledStatuses
     /\ r.structured_output = Undefined
     /\ r.messages = NoMessages}

\* getSessionStatus as a query that is repeated without end.  No component
\* reads updatedAt, and the query is answered before the clock moves on.
PolledSessionStatus(c, sid) ==
  /\ UNCHANGED <<remote, now, pc, loc>>
  /\ \/ /\ ret' = [Threw(StatusRet(sid), "getSession") EXCEPT !.caller = c]
        /\ UNCHANGED store
     \/ /\ sid \in DOMAIN remote
        /\ sid \notin DOMAIN store
        /\ ret' = [Threw(StatusRet(sid), "findUnique") EXCEPT !.caller = c]
        /\ UNCHANGED store
     \/ /\ sid \in DOMAIN remote
        /\ sid \in DOMAIN store
        /\ \E resp \in PolledResponses :
             /\ store' = StatusUpdate(store, sid, resp, now)
             /\ ret' = [StatusResponse(sid, store[sid].issueId, resp)
                          EXCEPT !.caller = c]

\* The query returned data, and its status is a terminal one.
TerminalResponse(r) ==
  /\ r.op = "getSessionStatus" /\ r.error = ""
  /\ isDevinSessionComplete(r.status_enum)

\* Dashboard.handleAnalyzeIssue: the button is disabled only while the
\* mutation is pending; a new session becomes currentSession.
HandleAnalyzeIssue(c) ==
  /\ ui[c].component = "Dashboard"
  /\ \/ \E i \in Issues : AnalyzeCheck(c, i)
     \/ AnalyzeCreate(c)
     \/ AnalyzeUpsert(c)
  /\ ui' = [ui EXCEPT
              ![c].answered = AlreadyRunningAnswer(@, pc'[c] = "idle", ret'),
              ![c].current =
                 IF pc'[c] = "idle" /\ ret'.error = "" /\ ~ret'.alreadyRunning
                 THEN [session_id |-> ret'.sessionId, status |-> "running",
                       status_enum |-> "working"]
                 ELSE @]

\* useSessionPolling of Dashboard: the query and handleSessionUpdate
DashboardPoll(c) ==
  /\ ui[c].component = "Dashboard"
  /\ ui[c].current # NoCurrentSession
  /\ SessionPollingEnabled(ui[c].current.status, ui[c].current.status_enum)
  /\ PolledSessionStatus(c, ui[c].current.session_id)
  /\ \E label \in PolledLabels :
       ui' = [ui EXCEPT ![c].current =
                IF ret'.error = ""
                THEN [session_id |-> ret'.sessionId, status |-> label,
                      status_enum |-> ret'.status_enum]
                ELSE @]

\* SessionProgress is rendered for a session: useState(true) of isPolling
ProgressMount(c, sid) ==
  /\ ui[c].component = "SessionProgress"
  /\ ui[c].sessionId = 0
  /\ sid \in DOMAIN store
  /\ ui' = [ui EXCEPT ![c].sessionId = sid, ![c].isPolling = TRUE]
  /\ UNCHANGED <<store, remote, now, pc, loc, ret>>

\* SessionProgress: the query and its effect
ProgressPoll(c) ==
  /\ ui[c].component = "SessionProgress"
  /\ ui[c].isPolling
  /\ PolledSessionStatus(c, ui[c].sessionId)
  /\ \E label \in PolledLabels :
       ui' = [ui EXCEPT ![c].isPolling =
                ~(ret'.error # "" \/ SessionCompleted(label))]

\* useSessionManager: sessions.filter(s => s.type === ty)[0] of a list
\* that comes newest first
LatestSession(sessions, ty) ==
  {s \in DOMAIN sessions :
     /\ sessions[s].type = ty
     /\ \A u \in DOMAIN sessions :
          sessions[u].type = ty => sessions[u].createdAt <= sessions[s].createdAt}

\* useSessionManager: latestAnalysisSessionId and latestResolutionSessionId
ManagerPolled(sessions, ty) ==
  {s \in LatestSession(sessions, ty) : isDevinSessionRunning(sessions[s].status)}

\* useSessionManager: hasRunningAnalysis
hasRunningAnalysis(sessions) ==
  \E s \in DOMAIN sessions :
     sessions[s].type = "analysis" /\ isDevinSessionRunning(sessions[s].status)

\* useSessionManager: hasRunningResolution
hasRunningResolution(sessions) ==
  \E s \in DOMAIN sessions :
     sessions[s].type = "resolution" /\ isDevinSessionRunning(sessions[s].status)

\* useSessionManager: the isAnalyzing it returns
ExposedIsAnalyzing(tab) == tab.isAnalyzing /\ hasRunningAnalysis(tab.sessions)

\* useSessionManager: the effect on [hasRunningAnalysis,
\* hasRunningResolution], run when the list changes from was to sessions
LoadingEffect(isAnalyzing, was, sessions) ==
  IF \/ hasRunningAnalysis(was) # hasRunningAnalysis(sessions)
     \/ hasRunningResolution(was) # hasRunningResolution(sessions)
  THEN isAnalyzing \/ hasRunningAnalysis(sessions)
  ELSE isAnalyzing

\* useSessionManager.startAnalysis: the button is disabled while the
\* isAnalyzing returned is true; state.isAnalyzing is set, and reset when
\* the mutation fails; the list is fetched again after the mutation.
ManagerStartAnalysis(c) ==
  /\ ui[c].component = "useSessionManager"
  /\ \/ /\ ~ExposedIsAnalyzing(ui[c])
        /\ \E i \in Issues : AnalyzeCheck(c, i)
     \/ AnalyzeCreate(c)
     \/ AnalyzeUpsert(c)
  /\ ui' = [ui EXCEPT
              ![c].answered = AlreadyRunningAnswer(@, pc'[c] = "idle", ret'),
              ![c].refetch = @ \/ (pc'[c] = "idle" /\ ret'.error = ""),
              ![c].isAnalyzing = ~(pc'[c] = "idle" /\ ret'.error # "")]

\* useSessionManager: the sessions query is answered
ManagerRefetch(c) ==
  /\ ui[c].component = "useSessionManager"
  /\ ui[c].refetch
  /\ LET fetched == [s \in DOMAIN store |->
                       [type |-> store[s].type, status |-> store[s].status,
                        createdAt |-> store[s].createdAt]]
     IN ui' = [ui EXCEPT
                 ![c].refetch = FALSE,
                 ![c].sessions = fetched,
                 ![c].isAnalyzing =
                    LoadingEffect(@, ui[c].sessions, fetched)]
  /\ UNCHANGED <<store, remote, now, pc, loc, ret>>

\* useSessionManager: the status query of the latest session of a type,
\* and the effect that refreshes the list when that session has completed
ManagerPoll(c, ty) ==
  /\ ui[c].component = "useSessionManager"
  /\ \E sid \in ManagerPolled(ui[c].sessions, ty) :
       PolledSessionStatus(c, sid)
  /\ ui' = [ui EXCEPT ![c].refetch =
              @ \/ (ret'.error = "" /\ ~isDevinSessionRunning(ret'.status_enum))]

(***************************************************************************)
(* Specifications.  Spec: the four procedures, one request at a time.      *)
(* SpecRace: requests of analyzeIssue, resolveIssue and getSessionStatus   *)
(* interleaving at their awaits.                                           *)
(***************************************************************************)
AnalysisInputs == StructuredOutputs \ {Undefined}

StartStep(c) ==
  \/ \E i \in Issues : AnalyzeCheck(c, i)
  \/ AnalyzeCreate(c)
  \/ AnalyzeUpsert(c)
  \/ \E sid \in SessionIds, a \in AnalysisInputs : ResolveCheck(c, sid, a)
  \/ ResolveCreate(c)
  \/ ResolveUpsert(c)

StatusStep(c) == \E sid \in SessionIds : GetSessionStatus(c, sid)

PollStep(c) ==
  \/ \E sid \in SessionIds, m \in 0..MaxAttempts : PollStart(c, sid, m)
  \/ PollAttempt(c)
  \/ PollTimeout(c)

FirstCaller == CHOOSE c \in Callers : \A d \in Callers : c <= d

RemoteStep == \E sid \in SessionIds : AddMessage(sid)

\* The procedures of the router do not touch the browser.
Next ==
  /\ \/ StartStep(FirstCaller)
     \/ StatusStep(FirstCaller)
     \/ PollStep(FirstCaller)
     \/ RemoteStep
  /\ UNCHANGED <<ui, mock, probe>>

Spec == Init /\ [][Next]_vars

NextRace ==
  /\ \/ \E c \in Callers : StartStep(c) \/ StatusStep(c)
     \/ RemoteStep
  /\ UNCHANGED <<ui, mock, probe>>

SpecRace == Init /\ [][NextRace]_vars

\* SpecStale: getSessionStatus requests interleaving between their fetch
\* and their write, on sessions analyzeIssue created.
NextStale ==
  /\ \/ \E i \in Issues : AnalyzeCheck(FirstCaller, i)
     \/ AnalyzeCreate(FirstCaller)
     \/ AnalyzeUpsert(FirstCaller)
     \/ \E c \in Callers, sid \in SessionIds : StatusFetch(c, sid)
     \/ \E c \in Callers : StatusWrite(c)
     \/ RemoteStep
  /\ UNCHANGED <<ui, mock, probe>>

SpecStale == Init /\ [][NextStale]_vars

\* SpecUI: one tab, which shows one component after the other.  The
\* queries are repeated on their interval for as long as they are enabled
\* (refetchInterval), the sessions query is answered, and a query that
\* stays enabled is in the end answered with a terminal status (the
\* session does end).
Tab == FirstCaller

NextUI ==
  /\ \/ \E component \in Components : OpenTab(Tab, component)
     \/ CloseTab(Tab)
     \/ HandleAnalyzeIssue(Tab)
     \/ DashboardPoll(Tab)
     \/ \E sid \in SessionIds : ProgressMount(Tab, sid)
     \/ ProgressPoll(Tab)
     \/ ManagerStartAnalysis(Tab)
     \/ ManagerRefetch(Tab)
     \/ \E ty \in SessionTypes : ManagerPoll(Tab, ty)
  /\ UNCHANGED <<mock, probe>>

FairUI ==
  /\ WF_vars(ManagerRefetch(Tab) /\ UNCHANGED <<mock, probe>>)
  /\ WF_vars(DashboardPoll(Tab) /\ UNCHANGED <<mock, probe>>)
  /\ SF_vars(DashboardPoll(Tab) /\ TerminalResponse(ret') /\ UNCHANGED <<mock, probe>>)
  /\ WF_vars(ProgressPoll(Tab) /\ UNCHANGED <<mock, probe>>)
  /\ SF_vars(ProgressPoll(Tab) /\ TerminalResponse(ret') /\ UNCHANGED <<mock, probe>>)
  /\ \A ty \in SessionTypes :
       /\ WF_vars(ManagerPoll(Tab, ty) /\ UNCHANGED <<mock, probe>>)
       /\ SF_vars(ManagerPoll(Tab, ty) /\ TerminalResponse(ret')
                    /\ UNCHANGED <<mock, probe>>)

SpecUI == Init /\ [][NextUI]_vars /\ FairUI

\* SpecShapes: the router with a service whose finished sessions carry an
\* output of either shape or of both.
ShapedOutputs == {AnalysisA, ResolutionR, AnalysisWithSummary}

ShapedResponses ==
  [status_enum : {"working", "finished"},
   structured_output : ShapedOutputs,
   messages : {NoMessages}]

NextShapes ==
  /\ \/ StartStep(FirstCaller)
     \/ \E sid \in SessionIds, resp \in ShapedResponses :
          StatusAnswered(FirstCaller, sid, resp)
  /\ UNCHANGED <<ui, mock, probe>>

SpecShapes == Init /\ [][NextShapes]_vars

\* SpecResolve: resolveIssue on a table that holds the finished analysis of
\* the issue and, in some of its initial states, a resolution session of the
\* issue that has ended.  analyzeIssue, getSessionStatus, resolveIssue and
\* getSessionStatus again leave these tables; the service has the two
\* sessions with their prompts.  Only resolveIssue requests follow.
FirstIssue == CHOOSE i \in Issues : TRUE

FinishedAnalysisRow ==
  [issueId |-> FirstIssue, type |-> "analysis", status |-> "finished",
   result |-> AnalysisA, confidenceScore |-> StatusConfidence(
     [status_enum |-> "finished", structured_output |-> AnalysisA]),
   messages |-> << >>, createdAt |-> 0, updatedAt |-> 0]

EndedResolutionRow(status) ==
  [issueId |-> FirstIssue, type |-> "resolution", status |-> status,
   result |-> IF status = "finished" THEN ResolutionR ELSE NullValue,
   confidenceScore |-> Null,
   messages |-> << >>, createdAt |-> 0, updatedAt |-> 0]

EndedStatuses == {"finished", "blocked", "expired"}

InitResolve ==
  /\ mock = NoMock
  /\ probe = NoProbe
  /\ now = 1
  /\ pc = [c \in Callers |-> "idle"]
  /\ loc = [c \in Callers |-> NoLoc]
  /\ ret = NoRet
  /\ ui = NoUI
  /\ \/ /\ store = <<FinishedAnalysisRow>>
        /\ remote = <<[prompt |-> AnalysisPrompt(FirstIssue), messages |-> 0]>>
     \/ \E status \in EndedStatuses :
          /\ store = <<FinishedAnalysisRow, EndedResolutionRow(status)>>
          /\ remote = <<[prompt |-> AnalysisPrompt(FirstIssue), messages |-> 0],
                        [prompt |-> ResolutionPrompt(FirstIssue, AnalysisA),
                         messages |-> 0]>>

NextResolve ==
  /\ \/ \E sid \in SessionIds, a \in AnalysisInputs :
          ResolveCheck(FirstCaller, sid, a)
     \/ ResolveCreate(FirstCaller)
     \/ ResolveUpsert(FirstCaller)
     \/ RemoteStep
  /\ UNCHANGED <<ui, mock, probe>>

SpecResolve == InitResolve /\ [][NextResolve]_vars

(***************************************************************************)
(* MockDevinClient: the in-memory stand-in of the remote agent.            *)
(***************************************************************************)
MockRevisions == {"devin-mock", "devin-factory"}
MockIds == 1..MaxMockSessions

AnalyzeMarker == "Analyze this GitHub issue"
ResolveMarker == "Resolve this GitHub issue"

\* The title and body of an issue, by the marker they quote.
MockIssueTexts == {"plain", AnalyzeMarker, ResolveMarker}

\* A prompt, by what prompt.includes(marker) answers for the two markers.
Prompts == [analyze : BOOLEAN, resolve : BOOLEAN]

\* The template of lib/devin-mock.ts opens with "You are an expert software
\* engineer analyzing a GitHub issue"; the one listed with devin-factory.ts
\* opens with the marker.  Both quote the title and the body of the issue.
generateAnalysisPrompt(rev, text) ==
  [analyze |-> rev = "devin-factory" \/ text = AnalyzeMarker,
   resolve |-> text = ResolveMarker]

generateResolutionPrompt(rev, text) ==
  [analyze |-> text = AnalyzeMarker,
   resolve |-> rev = "devin-factory" \/ text = ResolveMarker]

\* The number of timers scheduleProgressMessages sets.
scheduleProgressMessages(prompt) ==
  IF prompt.analyze THEN 5 ELSE IF prompt.resolve THEN 8 ELSE 3

generateMockAnalysisResult == {AnalysisA, AnalysisMid}
generateMockResolutionResult == {ResolutionR}

\* JSON.stringify of a result
Stringify(result) ==
  CASE result = AnalysisA   -> AnalysisJson
    [] result = AnalysisMid -> AnalysisMidJson
    [] result = ResolutionR -> ResolutionJson
    [] OTHER                -> result

\* The session createSession puts in the Map; timer is the pending
\* setTimeout of completeSession, progress the pending timers of the
\* progress messages, via the method that made the request.
MockSession(rev, prompt, via) ==
  IF rev = "devin-factory"
  THEN [status |-> "working", result |-> Undefined,
        type |-> IF prompt.analyze THEN "analysis" ELSE "resolution",
        prompt |-> prompt, via |-> via, messages |-> 1,
        progress |-> scheduleProgressMessages(prompt), timer |-> TRUE]
  ELSE [status |-> "running", result |-> Undefined, type |-> "",
        prompt |-> prompt, via |-> via, messages |-> 0,
        progress |-> 0, timer |-> TRUE]

\* createDevinClient: USE_MOCK_DEVIN selects the mock client.
createDevinClient(rev) ==
  /\ mock.revision = ""
  /\ mock' = [mock EXCEPT !.revision = rev]
  /\ UNCHANGED <<store, remote, now, pc, loc, ret, ui, probe>>

MockCreateSession(prompt, via) ==
  /\ mock.revision # ""
  /\ Len(mock.sessions) < MaxMockSessions
  /\ mock' = [mock EXCEPT
       !.sessions = Append(@, MockSession(mock.revision, prompt, via))]
  /\ UNCHANGED <<store, remote, now, pc, loc, ret, ui, probe>>

MockAnalyzeIssue(text) ==
  MockCreateSession(generateAnalysisPrompt(mock.revision, text),
                    "analyzeIssue")

MockResolveIssue(text) ==
  MockCreateSession(generateResolutionPrompt(mock.revision, text),
                    "resolveIssue")

\* A timer of scheduleProgressMessages fires: addMessage.  They are set to
\* fractions of the processing time, so they fire before completeSession.
MockProgressMessage(sid) ==
  /\ sid \in DOMAIN mock.sessions
  /\ mock.sessions[sid].progress > 0
  /\ mock' = [mock EXCEPT !.sessions[sid].progress = @ - 1,
                          !.sessions[sid].messages = @ + 1]
  /\ UNCHANGED <<store, remote, now, pc, loc, ret, ui, probe>>

\* The results completeSession can leave in a session.
CompletedResults(session) ==
  IF session.prompt.analyze THEN generateMockAnalysisResult
  ELSE IF session.prompt.resolve THEN generateMockResolutionResult
  ELSE {session.result}

MockCompletedStatus(rev) ==
  IF rev = "devin-factory" THEN "finished" ELSE "stopped"

\* The timer of createSession fires.
completeSession(sid) ==
  /\ sid \in DOMAIN mock.sessions
  /\ mock.sessions[sid].timer
  /\ mock.sessions[sid].progress = 0
  /\ \E result \in CompletedResults(mock.sessions[sid]) :
       mock' = [mock EXCEPT
         !.sessions[sid].timer = FALSE,
         !.sessions[sid].status = MockCompletedStatus(mock.revision),
         !.sessions[sid].result = result,
         !.sessions[sid].messages =
            IF mock.revision = "devin-factory" THEN @ + 1 ELSE @]
  /\ UNCHANGED <<store, remote, now, pc, loc, ret, ui, probe>>

\* The results getSession can leave in a session: the MockDevinClient
\* listed with devin-factory.ts generates a missing result of a finished
\* session from the type of the session.
FetchedResults(rev, session) ==
  IF rev = "devin-factory" /\ session.status = "finished"
     /\ session.result = Undefined
  THEN IF session.type = "analysis" THEN generateMockAnalysisResult
       ELSE generateMockResolutionResult
  ELSE {session.result}

MockStatusLabel(status) ==
  CASE status = "working"  -> "Working on analysis"
    [] status = "blocked"  -> "Blocked waiting for input"
    [] status = "finished" -> "Analysis complete"
    [] OTHER               -> status

\* The response of getSession for a session that holds result.
MockResponse(rev, sid, session, result) ==
  IF rev = "devin-factory"
  THEN [session_id |-> sid, status |-> MockStatusLabel(session.status),
        status_enum |-> session.status,
        structured_output |->
          IF session.status = "finished" THEN result ELSE Undefined,
        messages |-> session.messages, error |-> ""]
  ELSE [session_id |-> sid, status |-> session.status,
        status_enum |-> IF session.status = "running" THEN "working"
                        ELSE IF session.status = "blocked" THEN "blocked"
                        ELSE "stopped",
        structured_output |->
          IF session.status = "stopped" /\ Truthy(result)
          THEN Stringify(result) ELSE Undefined,
        messages |-> 0, error |-> ""]

\* The responses getSession can give for sid in this state.
MockGetSessionResponses(sid) ==
  {MockResponse(mock.revision, sid, mock.sessions[sid], result) :
     result \in FetchedResults(mock.revision, mock.sessions[sid])}

MockGetSession(sid) ==
  /\ mock.revision # ""
  /\ IF sid \in DOMAIN mock.sessions
     THEN \E result \in FetchedResults(mock.revision, mock.sessions[sid]) :
            mock' = [mock EXCEPT
              !.sessions[sid].result = result,
              !.last = MockResponse(mock.revision, sid, mock.sessions[sid],
                                    result)]
     ELSE mock' = [mock EXCEPT
            !.last = [NoMockResponse EXCEPT !.session_id = sid,
                                            !.error = "not found"]]
  /\ UNCHANGED <<store, remote, now, pc, loc, ret, ui, probe>>

\* pollSession of the mock client.  The loop compares the status of the
\* response (the label in the client listed with devin-factory.ts) with
\* "finished" ("stopped" in lib/devin-mock.ts) and with "blocked".
MockPollSession(sid, maxAttempts) ==
  /\ mock.revision # ""
  /\ mock.poll.state # "running"
  /\ mock' = [mock EXCEPT !.poll = [sid |-> sid, attempts |-> 0,
                                    maxAttempts |-> maxAttempts,
                                    state |-> "running"]]
  /\ UNCHANGED <<store, remote, now, pc, loc, ret, ui, probe>>

MockPollOutcome(state) == [NoMockPoll EXCEPT !.state = state]

\* What one pass of the loop does with the response of getSession.
MockPollNext(poll, resp) ==
  IF resp.status = MockCompletedStatus(mock.revision)
  THEN MockPollOutcome("returned")
  ELSE IF resp.status = "blocked"
       THEN MockPollOutcome("blocked")
       ELSE [poll EXCEPT !.attempts = @ + 1]

\* one pass of the while loop
MockPollAttempt ==
  /\ mock.poll.state = "running"
  /\ mock.poll.attempts < mock.poll.maxAttempts
  /\ LET sid == mock.poll.sid IN
     IF sid \in DOMAIN mock.sessions
     THEN \E result \in FetchedResults(mock.revision, mock.sessions[sid]) :
            mock' = [mock EXCEPT
              !.sessions[sid].result = result,
              !.poll = MockPollNext(mock.poll,
                         MockResponse(mock.revision, sid, mock.sessions[sid],
                                      result))]
     ELSE mock' = [mock EXCEPT !.poll = MockPollOutcome("not found")]
  /\ UNCHANGED <<store, remote, now, pc, loc, ret, ui, probe>>

\* the loop ran out of attempts
MockPollTimeout ==
  /\ mock.poll.state = "running"
  /\ mock.poll.attempts >= mock.poll.maxAttempts
  /\ mock' = [mock EXCEPT !.poll = MockPollOutcome("timeout")]
  /\ UNCHANGED <<store, remote, now, pc, loc, ret, ui, probe>>

\* SpecMockPoll: the mock client with callers that poll.
NextMockPoll ==
  \/ \E rev \in MockRevisions : createDevinClient(rev)
  \/ \E text \in MockIssueTexts : MockAnalyzeIssue(text)
  \/ \E text \in MockIssueTexts : MockResolveIssue(text)
  \/ \E sid \in MockIds : MockProgressMessage(sid)
  \/ \E sid \in MockIds : completeSession(sid)
  \/ \E sid \in MockIds, m \in 0..MaxAttempts : MockPollSession(sid, m)
  \/ MockPollAttempt
  \/ MockPollTimeout

SpecMockPoll == Init /\ [][NextMockPoll]_vars

\* SpecMock: the mock client alone.  A timer that is set fires.
NextMock ==
  \/ \E rev \in MockRevisions : createDevinClient(rev)
  \/ \E text \in MockIssueTexts : MockAnalyzeIssue(text)
  \/ \E text \in MockIssueTexts : MockResolveIssue(text)
  \/ \E prompt \in Prompts : MockCreateSession(prompt, "createSession")
  \/ \E sid \in MockIds : MockProgressMessage(sid)
  \/ \E sid \in MockIds : completeSession(sid)
  \/ \E sid \in MockIds : MockGetSession(sid)

FairMock ==
  \A sid \in MockIds :
    /\ WF_vars(MockProgressMessage(sid))
    /\ WF_vars(completeSession(sid))

SpecMock == Init /\ [][NextMock]_vars /\ FairMock

(***************************************************************************)
(* Properties.                                                             *)
(***************************************************************************)

\* C1: under any interleaving of analyzeIssue / resolveIssue requests with
\* getSessionStatus requests, every (issue, type) pair has at most one row
\* whose stored status is a running sub-state.
C1_AtMostOneRunning ==
  \A i \in Issues, ty \in SessionTypes :
    Cardinality(RunningSessions(store, i, ty)) <= 1

\* C2: when analyzeIssue(i) has just returned a session id from a table with
\* no running analysis session of i, and analyzeIssue(i) is called again and
\* does not throw, the second call returns that id with alreadyRunning and
\* the id's row is the only running analysis row of i.
C2_IdempotentStart ==
  [][\A i \in Issues :
       ( /\ ret.op = "analyzeIssue" /\ ret.error = ""
         /\ ret.issue = i /\ ret.noRunning
         /\ AnalyzeCheck(FirstCaller, i)
         /\ (pc'[FirstCaller] # "idle" \/ ret'.error = "") )
       => ( /\ pc'[FirstCaller] = "idle"
            /\ ret'.alreadyRunning
            /\ ret'.sessionId = ret.sessionId
            /\ RunningSessions(store', i, "analysis") = {ret.sessionId} )]_vars

\* C3: when the table holds an analysis row of i whose stored status is any
\* running sub-state, analyzeIssue(i) (unless it throws) returns the id of
\* such a row with alreadyRunning, calls no remote create and writes nothing.
C3_RunningSubstateSuppresses ==
  [][\A i \in Issues :
       ( /\ RunningSessions(store, i, "analysis") # {}
         /\ AnalyzeCheck(FirstCaller, i)
         /\ (pc'[FirstCaller] # "idle" \/ ret'.error = "") )
       => ( /\ pc'[FirstCaller] = "idle"
            /\ ret'.alreadyRunning
            /\ ret'.sessionId \in RunningSessions(store, i, "analysis")
            /\ store' = store /\ remote' = remote )]_vars

\* C4: each of the nine native statuses has exactly one canonical state: the
\* six working / suspend / resume values are running and not complete,
\* blocked, finished and expired are complete and not running; and every
\* status getSessionStatus returns is one of the nine.
C4_NormalizationTotal ==
  /\ \A s \in DevinStatusEnum :
       isDevinSessionRunning(s) # isDevinSessionComplete(s)
  /\ \A s \in {"working", "resumed", "suspend_requested",
               "suspend_requested_frontend", "resume_requested",
               "resume_requested_frontend"} : isDevinSessionRunning(s)
  /\ \A s \in {"blocked", "finished", "expired"} : isDevinSessionComplete(s)
  /\ (ret.op = "getSessionStatus" /\ ret.error = "")
       => /\ ret.status_enum \in DevinStatusEnum
          /\ store[ret.sessionId].status = ret.status_enum

C4_Witness ==
  /\ ret.op = "getSessionStatus" /\ ret.error = ""
  /\ ret.status_enum = "resume_requested_frontend"

\* C5: a stored status changes only from a running sub-state, and only to a
\* value of the vocabulary; a terminal stored status never changes.
C5_TerminalIsFinal ==
  [][\A s \in DOMAIN store :
       store'[s].status # store[s].status
         => /\ isDevinSessionRunning(store[s].status)
            /\ store'[s].status \in DevinStatusEnum]_vars

\* C6: in the table and in what getSessionStatus returns, a result is present
\* only with a terminal status, always with finished, never with a running
\* status.
C6_ResultPresence ==
  /\ \A s \in DOMAIN store :
       /\ store[s].result # NullValue => isDevinSessionComplete(store[s].status)
       /\ store[s].status = "finished" => store[s].result # NullValue
  /\ (ret.op = "getSessionStatus" /\ ret.error = "")
       => /\ ret.status_enum = "finished" => ret.result # NullValue
          /\ isDevinSessionRunning(ret.status_enum) => ret.result = NullValue
          /\ (ret.status_enum = "expired" /\ ~Truthy(ret.structured_output))
               => ret.result = NullValue

\* C7: once a row is finished with a result, a getSessionStatus request on it
\* returns that result and leaves it in the row.
C7_ResultWrittenOnce ==
  [][\A s \in DOMAIN store :
       ( /\ store[s].status = "finished" /\ store[s].result # NullValue
         /\ GetSessionStatus(FirstCaller, s)
         /\ ret'.error = "" )
       => ( /\ store'[s].result = store[s].result
            /\ ret'.result = store[s].result )]_vars

\* C8: resolveIssue goes on to the remote create only when the row named by
\* its sessionId is a finished analysis row with a valid AnalysisResult, and a
\* resolution row is only created for an issue that has such a row.
C8_ResolutionPrecondition ==
  [][/\ \A c \in Callers :
          (pc[c] = "idle" /\ pc'[c] = "resolve_create")
            => /\ store[loc'[c].arg].type = "analysis"
               /\ store[loc'[c].arg].status = "finished"
               /\ isValidAnalysisResult(store[loc'[c].arg].result)
     /\ \A s \in DOMAIN store' \ DOMAIN store :
          store'[s].type = "resolution"
            => \E a \in DOMAIN store :
                 /\ store[a].issueId = store'[s].issueId
                 /\ store[a].type = "analysis"
                 /\ store[a].status = "finished"
                 /\ isValidAnalysisResult(store[a].result)]_vars

C10_CreateFailureWritesNothing ==
  [][\A c \in Callers :
       /\ (pc[c] = "idle" /\ pc'[c] \in {"analyze_create", "resolve_create"})
            => store' = store
       /\ ( /\ pc[c] \in {"analyze_create", "resolve_create"}
            /\ pc'[c] = "idle" /\ ret'.error = "createSession" )
            => store' = store]_vars

C10_Witness ==
  /\ ret.op \in {"analyzeIssue", "resolveIssue"}
  /\ ret.error = "createSession"
  /\ DOMAIN store # {}

\* C11: a start request that goes through to its upsert while the table
\* holds a blocked or expired row of the same issue and kind (a retry)
\* returns an id that no row of the table had, and leaves every row of the
\* table as it was, updatedAt included.
C11_RetryYieldsNewSession ==
  [][\A c \in Callers :
       LET ty == IF pc[c] = "analyze_upsert" THEN "analysis" ELSE "resolution" IN
       ( /\ pc[c] \in {"analyze_upsert", "resolve_upsert"}
         /\ pc'[c] = "idle"
         /\ \E s \in DOMAIN store :
              /\ store[s].issueId = loc[c].issue
              /\ store[s].type = ty
              /\ store[s].status \in {"blocked", "expired"} )
       => ( /\ ret'.sessionId \notin DOMAIN store
            /\ \A s \in DOMAIN store : store'[s] = store[s] )]_vars

\* C12: a pollSession request that ends by throwing (attempts used up, the
\* session blocked, the fetch failing) leaves the table as it was.
C12_PollFailureLeavesRow ==
  [][\A c \in Callers :
       (pc[c] = "poll" /\ pc'[c] = "idle" /\ ret'.error # "")
         => store' = store]_vars

\* C13: when a getSessionStatus request gets the response the request just
\* before it got for the same session, it leaves every row as it was but
\* for updatedAt, and returns the status and the result the first returned.
C13_StatusIdempotent ==
  [][\A sid \in SessionIds :
       ( /\ GetSessionStatus(FirstCaller, sid)
         /\ ret'.error = "" /\ ret'.again )
       => ( /\ DOMAIN store' = DOMAIN store
            /\ \A s \in DOMAIN store :
                 [store'[s] EXCEPT !.updatedAt = 0] =
                 [store[s] EXCEPT !.updatedAt = 0]
            /\ ret'.status_enum = ret.status_enum
            /\ ret'.result = ret.result )]_vars

C13_Witness ==
  /\ ret.op = "getSessionStatus" /\ ret.error = "" /\ ret.again
  /\ ret.status_enum = "finished"
  /\ ret.result = AnalysisA
  /\ store[ret.sessionId].messages # << >>

\* C14: a getSessionStatus request that writes after a request that fetched
\* later than it has written, onto a row that is finished with a result,
\* leaves the row's status, result and message log as they are.
C14_StaleWriteHarmless ==
  [][\A c \in Callers :
       ( /\ pc[c] = "status_write" /\ pc'[c] = "idle"
         /\ loc[c].overtaken
         /\ store[loc[c].sid].status = "finished"
         /\ store[loc[c].sid].result # NullValue )
       => ( /\ store'[loc[c].sid].status = "finished"
            /\ store'[loc[c].sid].result = store[loc[c].sid].result
            /\ store'[loc[c].sid].messages = store[loc[c].sid].messages )]_vars

\* C15: the stored status of every row is one of the nine native values.
C15_StatusInVocabulary ==
  \A s \in DOMAIN store : store[s].status \in DevinStatusEnum

\* C19: no step removes a row; a row appears only in the upsert of a start
\* request; a row that exists changes only in a getSessionStatus request.
C19_WritersOfTheTable ==
  [][/\ DOMAIN store \subseteq DOMAIN store'
     /\ DOMAIN store' # DOMAIN store
          => \E c \in Callers : pc[c] \in {"analyze_upsert", "resolve_upsert"}
     /\ (\E s \in DOMAIN store : store'[s] # store[s])
          => \E c \in Callers :
               /\ pc[c] = "idle" /\ pc'[c] = "idle"
               /\ ret'.op = "getSessionStatus" /\ ret'.caller = c]_vars

C18_DecisionsByCanonicalState ==
  LET Canonical(e) == IF isDevinSessionRunning(e) THEN "RUNNING" ELSE e IN
  /\ (ret.op = "getSessionStatus" /\ ret.error = "")
       => \A e \in DevinStatusEnum, l1 \in StatusLabels, l2 \in StatusLabels :
            Canonical(e) = Canonical(ret.status_enum)
              => /\ SessionPollingEnabled(l1, e) =
                    SessionPollingEnabled(l2, ret.status_enum)
                 /\ SessionCompleted(l1) = SessionCompleted(l2)
  /\ \A s \in DOMAIN store, e \in DevinStatusEnum :
       ( /\ store[s].status \in DevinStatusEnum
         /\ Canonical(e) = Canonical(store[s].status) )
       => /\ canResolve(e, store[s].result)
               = canResolve(store[s].status, store[s].result)
          /\ RetryOffered(e, store[s].result)
               = RetryOffered(store[s].status, store[s].result)

\* The tab c keeps a status query of session s enabled.
Polls(c, s) ==
  \/ /\ ui[c].component = "Dashboard"
     /\ ui[c].current.session_id = s
     /\ SessionPollingEnabled(ui[c].current.status, ui[c].current.status_enum)
  \/ /\ ui[c].component = "SessionProgress"
     /\ ui[c].sessionId = s /\ ui[c].isPolling
  \/ /\ ui[c].component = "useSessionManager"
     /\ \E ty \in SessionTypes : s \in ManagerPolled(ui[c].sessions, ty)

\* The last status query was one of tab c for session s, and it was
\* answered with a terminal status.
Observed(c, s) ==
  TerminalResponse(ret) /\ ret.caller = c /\ ret.sessionId = s

\* The tab shows a component.
TabOpen == ui[Tab].component # ""

\* A status query of session s that returned data returned a terminal
\* status.
AnsweredTerminal(s) ==
  (ret.op = "getSessionStatus" /\ ret.error = "" /\ ret.sessionId = s)
    => isDevinSessionComplete(ret.status_enum)

\* The component shown is one that follows session s: Dashboard and
\* useSessionManager follow the sessions of the issue, SessionProgress the
\* session it is rendered for.
Serves(s) ==
  \/ ui[Tab].component \in {"Dashboard", "useSessionManager"}
  \/ ui[Tab].component = "SessionProgress" /\ ui[Tab].sessionId = s

\* C16: from the moment a session is in the table and the component that
\* follows it stays on the screen, with the queries repeated for as long
\* as they are enabled and answered in the end with a terminal status, the
\* session eventually has a terminal status stored.
C16_RunningSessionsReachTerminal ==
  \A s \in SessionIds :
     []((s \in DOMAIN store /\ []Serves(s))
          => <>(s \in DOMAIN store /\ isDevinSessionComplete(store[s].status)))

\* C17: once the component shown has been answered a terminal status for
\* a session, and for as long as it is shown the session is reported
\* terminal, it eventually stops querying that session, for good.
C17_PollingStopsAfterTerminal ==
  \A s \in SessionIds :
     []((Observed(Tab, s) /\ [](TabOpen /\ AnsweredTerminal(s)))
          => <>[](~Polls(Tab, s)))

\* C21: duplicate suppression is per kind.  With a running resolution row
\* and no running analysis row of i, analyzeIssue(i) is not answered with
\* alreadyRunning, and the id its remote create answers with is one the
\* table does not hold; the same for resolveIssue with a running analysis
\* row and no running resolution row.
C21_SuppressionPerKind ==
  [][\A i \in Issues :
       /\ ( /\ RunningSessions(store, i, "resolution") # {}
            /\ RunningSessions(store, i, "analysis") = {} )
          => /\ AnalyzeCheck(FirstCaller, i)
                  => ~(pc'[FirstCaller] = "idle" /\ ret'.alreadyRunning)
             /\ ( /\ AnalyzeCreate(FirstCaller)
                  /\ pc'[FirstCaller] = "analyze_upsert" )
                  => loc'[FirstCaller].sid \notin DOMAIN store
       /\ ( /\ RunningSessions(store, i, "analysis") # {}
            /\ RunningSessions(store, i, "resolution") = {} )
          => /\ (\E sid \in SessionIds, a \in AnalysisInputs :
                    ResolveCheck(FirstCaller, sid, a))
                  => ~(pc'[FirstCaller] = "idle" /\ ret'.alreadyRunning)
             /\ ( /\ ResolveCreate(FirstCaller)
                  /\ pc'[FirstCaller] = "resolve_upsert" )
                  => loc'[FirstCaller].sid \notin DOMAIN store]_vars

\* C22: a row keeps its sessionId, its type and its issue for as long as
\* the table exists: no step removes a row or changes these fields, the
\* upsert of a start call answered with an id the table holds included.
C22_IdentityImmutable ==
  [][\A s \in DOMAIN store :
       /\ s \in DOMAIN store'
       /\ store'[s].type = store[s].type
       /\ store'[s].issueId = store[s].issueId]_vars

\* A start call was answered with an id the table held, and its upsert
\* took the update branch.
C22_Witness ==
  /\ ret.op \in {"analyzeIssue", "resolveIssue"}
  /\ ret.error = "" /\ ~ret.alreadyRunning
  /\ ret.sessionId \in DOMAIN store
  /\ store[ret.sessionId].updatedAt > store[ret.sessionId].createdAt

\* The last analyzeIssue mutation of the component on the screen was
\* answered with alreadyRunning and session s.
AnsweredAlreadyRunning(s) == ui[Tab].answered = s

\* A status query of session s that returned data returned "working" or a
\* terminal status.
AnsweredWorkingOrTerminal(s) ==
  (ret.op = "getSessionStatus" /\ ret.error = "" /\ ret.sessionId = s)
    => (ret.status_enum = "working" \/ isDevinSessionComplete(ret.status_enum))

\* C23: when analyzeIssue answers the component on the screen with
\* alreadyRunning and the id of a session in flight, and the component
\* stays on the screen, the session eventually has a terminal status
\* stored (the session being reported working until it is terminal).
C23_AlreadyRunningResumesPolling ==
  \A s \in SessionIds :
     []((/\ AnsweredAlreadyRunning(s)
         /\ [](/\ ui[Tab].component \in {"Dashboard", "useSessionManager"}
                /\ AnsweredWorkingOrTerminal(s)))
          => <>(s \in DOMAIN store /\ isDevinSessionComplete(store[s].status)))

\* The session sid of the mock client was created through the method via.
CreatedThrough(sid, via) ==
  sid \in DOMAIN mock.sessions /\ mock.sessions[sid].via = via

\* Every answer getSession can give for sid now carries a completed status
\* and a structured output of the kind.
MockAnswersValid(sid, kind) ==
  /\ sid \in DOMAIN mock.sessions
  /\ \A resp \in MockGetSessionResponses(sid) :
       /\ isDevinSessionComplete(resp.status_enum)
       /\ IF kind = "analysis"
          THEN isValidAnalysisResult(resp.structured_output)
          ELSE isValidResolutionResult(resp.structured_output)

\* C24: every session created on the mock client through analyzeIssue
\* reaches the completed status once its timer has fired, and from then on
\* getSession returns a structured output that passes isValidAnalysisResult;
\* a session created through resolveIssue likewise returns an output that
\* passes isValidResolutionResult.
C24_MockSessionsComplete ==
  \A sid \in MockIds :
    /\ [](CreatedThrough(sid, "analyzeIssue")
            => <>[]MockAnswersValid(sid, "analysis"))
    /\ [](CreatedThrough(sid, "resolveIssue")
            => <>[]MockAnswersValid(sid, "resolution"))

MockBlocked ==
  \E sid \in DOMAIN mock.sessions : mock.sessions[sid].status = "blocked"

\* No state of the mock client holds a blocked session.
MockNeverBlocked == ~MockBlocked

\* C25: the mock client produces blocked sessions: some session created by
\* createSession gets the status blocked.  Stated for the runs that create
\* every session the client can hold: one of them is blocked in the end.
C25_MockProducesBlocked ==
  [](Len(mock.sessions) = MaxMockSessions => <>MockBlocked)

\* The pollSession request of caller c returns a response with this step.
PollReturns(c) ==
  /\ pc[c] = "poll"
  /\ pc'[c] = "idle"
  /\ ret'.op = "pollSession"
  /\ ret'.error = ""

\* C26: when the pollSession procedure returns for a session, the stored
\* status of the session is the status of the final response of the remote
\* (expired is stored as expired, finished as finished) and the stored
\* result is the structured output of that response.
C26_PollStoresFinalResponse ==
  [][\A c \in Callers :
       PollReturns(c) =>
         /\ store'[loc[c].sid].status = ret'.status_enum
         /\ store'[loc[c].sid].result =
              IF ret'.structured_output = Undefined
              THEN NullValue ELSE ret'.structured_output]_vars

\* The latest request to complete was a resolveIssue for issue i that found
\* no running resolution session of i and started one.
FirstResolution(i) ==
  /\ ret.op = "resolveIssue"
  /\ ret.error = ""
  /\ ret.issue = i
  /\ ret.noRunning
  /\ ~ret.alreadyRunning

\* resolveIssue is called for the analysis session arg of issue i, which is
\* finished with a valid result, and the input passes the schema.
SecondResolution(c, i, arg, a) ==
  /\ analysisResultSchema(a)
  /\ arg \in DOMAIN store
  /\ store[arg].issueId = i
  /\ store[arg].type = "analysis"
  /\ store[arg].status = "finished"
  /\ isValidAnalysisResult(store[arg].result)
  /\ ResolveCheck(c, arg, a)

\* C27: from a table with no running resolution session of issue i and a
\* finished valid analysis, two resolveIssue calls for i one after the other
\* leave exactly one running resolution row; the second call returns the
\* session id of the first with alreadyRunning = true and makes no create
\* call to the remote (a second call that githubClient.getIssue fails is
\* left aside).
C27_SecondResolutionSuppressed ==
  [][\A i \in Issues, arg \in SessionIds, a \in AnalysisInputs :
       (/\ FirstResolution(i)
        /\ SecondResolution(FirstCaller, i, arg, a)
        /\ ret'.error = "") =>
         /\ pc'[FirstCaller] = "idle"
         /\ ret'.alreadyRunning
         /\ ret'.sessionId = ret.sessionId
         /\ Cardinality(RunningSessions(store', i, "resolution")) = 1]_vars

\* The output satisfies the shape of an analysis and that of a resolution.
BothShapes(output) ==
  isValidAnalysisResult(output) /\ isValidResolutionResult(output)

\* getSessionStatus(sid) is answered a completed status with an output of
\* both shapes.
AnsweredBothShapes(sid, resp) ==
  /\ isDevinSessionComplete(resp.status_enum)
  /\ BothShapes(resp.structured_output)
  /\ StatusAnswered(FirstCaller, sid, resp)

\* C28: getSessionStatus checks the shape of the session's own kind first:
\* an output that satisfies both shapes is accepted as a resolution result
\* for a resolution session, and no confidence score is recorded; for an
\* analysis session it is accepted as an analysis result, with its score.
C28_OwnKindCheckedFirst ==
  [][\A sid \in SessionIds, resp \in ShapedResponses :
       AnsweredBothShapes(sid, resp) =>
         /\ store'[sid].result = resp.structured_output
         /\ store'[sid].confidenceScore =
              IF store[sid].type = "resolution" THEN Null
              ELSE JsValue(resp.structured_output).o["confidence_score"]]_vars

\* The score the claim expects in the row after a getSessionStatus that was
\* answered status_enum (as normalised) with output.
ExpectedConfidence(statusEnum, output) ==
  IF isDevinSessionComplete(statusEnum) /\ isValidAnalysisResult(output)
  THEN JsValue(output).o["confidence_score"]
  ELSE Null

\* C29: after every getSessionStatus, the confidence score written to the
\* row is the confidence_score of the result when the session is terminal
\* with an output that validates as an analysis result, and null in every
\* other case (running status, no output, resolution or unrecognised
\* output).
C29_ConfidenceScoreWritten ==
  [][\A sid \in SessionIds :
       (GetSessionStatus(FirstCaller, sid) /\ ret'.error = "") =>
         store'[sid].confidenceScore =
           ExpectedConfidence(ret'.status_enum, ret'.structured_output)]_vars

\* Scenario A: a finished analysis with confidence_score 85 has been
\* recorded.
C29_Witness ==
  /\ ret.op = "getSessionStatus"
  /\ ret.error = ""
  /\ ret.status_enum = "finished"
  /\ ret.structured_output = AnalysisA
  /\ ret.sessionId \in DOMAIN store
  /\ store[ret.sessionId].confidenceScore = Num(85)

\* C30: getSessionStatus(s) writes only the row of s: no row is added or
\* removed, and every other row has the same status, result, messages and
\* timestamps after the call, whether the call succeeds or fails.
C30_StatusWritesOneRow ==
  [][\A sid \in SessionIds :
       GetSessionStatus(FirstCaller, sid) =>
         /\ DOMAIN store' = DOMAIN store
         /\ \A s \in DOMAIN store \ {sid} : store'[s] = store[s]]_vars

\* A getSessionStatus has written its row while the table held another.
C30_Witness ==
  /\ ret.op = "getSessionStatus"
  /\ ret.error = ""
  /\ ret.sessionId \in DOMAIN store
  /\ \E s \in DOMAIN store \ {ret.sessionId} :
       /\ store[s].createdAt < store[ret.sessionId].updatedAt
       /\ store[s].updatedAt < store[ret.sessionId].updatedAt
  /\ store[ret.sessionId].updatedAt > store[ret.sessionId].createdAt

\* C31: getSessionStatus for a session id that has no row in the table fails
\* with an error and leaves the table as it is (no row is created or
\* modified), also when the service knows the session.
C31_StatusWithoutRowFails ==
  [][\A c \in Callers, sid \in SessionIds :
       (/\ sid \notin DOMAIN store
        /\ ret'.op = "getSessionStatus"
        /\ ret'.caller = c
        /\ ret'.sessionId = sid
        /\ GetSessionStatus(c, sid)) =>
         /\ ret'.error # ""
         /\ store' = store]_vars

\* A getSessionStatus failed for a session the service knows and the table
\* does not.
C31_Witness ==
  /\ ret.op = "getSessionStatus"
  /\ ret.error = "findUnique"
  /\ ret.sessionId \in DOMAIN remote
  /\ ret.sessionId \notin DOMAIN store

\* The pass of the loop of the mock client's pollSession that this step
\* makes is answered a finished session.
MockPollSeesFinished ==
  /\ MockPollAttempt
  /\ mock.poll.sid \in DOMAIN mock.sessions
  /\ \E resp \in MockGetSessionResponses(mock.poll.sid) :
       resp.status_enum \in {"finished", "stopped"}

\* C32: pollSession ends after at most maxAttempts calls of getSession: it
\* returns the response as soon as the status is finished or expired,
\* throws as soon as it is blocked, and throws a timeout after maxAttempts
\* polls that reported a running status.  Stated for the client behind
\* devinClientInstance when USE_MOCK_DEVIN is set: the loop never makes more
\* than maxAttempts passes, and a pass that is answered a finished session
\* returns.
C32_PollSessionReturnsWhenFinished ==
  [][/\ mock'.poll.attempts <= mock'.poll.maxAttempts
     /\ MockPollSeesFinished => mock'.poll.state = "returned"]_vars

(***************************************************************************)
(* The validators as functions of any value.  The values are the           *)
(* non-objects and the objects whose analysis fields are each present and  *)
(* in the domain, present and outside it, or missing.                      *)
(***************************************************************************)
AnalysisFieldNames ==
  {"type", "complexity", "confidence_score", "strategy", "scope_analysis",
   "reasoning"}

TypeValues       == {Str(x) : x \in AnalysisTypes \cup {"other"}} \cup {Undef}
ComplexityValues == {Str(x) : x \in Complexities \cup {"huge"}} \cup {Undef}
ScoreValues      ==
  {Num(0 - 1), Num(0), Num(85), Num(100), Num(101), Str("85"), Undef}
TextValues       == {Str("text"), Str(""), Undef}

ProbeObjects ==
  {Obj([f \in FieldNames |->
          CASE f = "type"             -> ty
            [] f = "complexity"       -> cx
            [] f = "confidence_score" -> score
            [] f = "strategy"         -> st
            [] f = "scope_analysis"   -> sc
            [] f = "reasoning"        -> re
            [] OTHER                  -> Undef]) :
     ty \in TypeValues, cx \in ComplexityValues, score \in ScoreValues,
     st \in TextValues, sc \in TextValues, re \in TextValues}

ProbeValues ==
  ProbeObjects \cup
  {[t |-> "undefined", s |-> "", o |-> NoFields],
   [t |-> "null", s |-> "", o |-> NoFields],
   [t |-> "string", s |-> "", o |-> NoFields],
   [t |-> "string", s |-> "{analysis_85}", o |-> NoFields]}

\* Any of the values is at hand; no validator has been called with it.
InitValidate ==
  /\ probe \in {[NoProbe EXCEPT !.input = x] : x \in ProbeValues}
  /\ mock = NoMock
  /\ store = << >>
  /\ remote = << >>
  /\ now = 1
  /\ pc = [c \in Callers |-> "idle"]
  /\ loc = [c \in Callers |-> NoLoc]
  /\ ret = NoRet
  /\ ui = NoUI

\* devinClient.isValidAnalysisResult(probe.input)
ValidateAnalysis ==
  /\ probe' = [probe EXCEPT !.op = "isValidAnalysisResult",
                            !.accepted = ValidAnalysisValue(probe.input)]
  /\ UNCHANGED <<store, remote, now, pc, loc, ret, ui, mock>>

\* the analysisResult part of the input schema of resolveIssue parses
\* probe.input
ParseAnalysisInput ==
  /\ probe' = [probe EXCEPT !.op = "analysisResultSchema",
                            !.accepted = AnalysisSchemaValue(probe.input)]
  /\ UNCHANGED <<store, remote, now, pc, loc, ret, ui, mock>>

NextValidate ==
  \/ ValidateAnalysis
  \/ ParseAnalysisInput

SpecValidate == InitValidate /\ [][NextValidate]_vars

\* The domain the specification gives each field of an analysis result.
InDomain(f, y) ==
  CASE f = "type"             -> y \in {Str(a) : a \in AnalysisTypes}
    [] f = "complexity"       -> y \in {Str(a) : a \in Complexities}
    [] f = "confidence_score" -> y.t = "number" /\ y.n >= 0 /\ y.n <= 100
    [] OTHER                  -> y.t = "string"

WellFormedAnalysis(x) ==
  /\ x.t = "object"
  /\ \A f \in AnalysisFieldNames : InDomain(f, x.o[f])

\* C33: isValidAnalysisResult (and the analysisResult schema of resolveIssue)
\* accepts a value exactly when it is an object whose type is one of the six
\* types, whose complexity is one of the three, whose confidence_score is a
\* number from 0 to 100 and whose strategy, scope_analysis and reasoning are
\* strings; a value with one field missing or outside its domain is rejected.
C33_ValidatorAcceptsExactly ==
  probe.op # "" => (probe.accepted <=> WellFormedAnalysis(probe.input))

\* A value whose only fault is a score of 101 has been rejected by the
\* validator.
C33_Witness ==
  /\ probe.op = "isValidAnalysisResult"
  /\ probe.input.t = "object"
  /\ probe.input.o["confidence_score"] = Num(101)
  /\ \A f \in AnalysisFieldNames \ {"confidence_score"} :
        InDomain(f, probe.input.o[f])
  /\ ~probe.accepted

\* C34: every stored result of an analysis session that the Resolve tab
\* lets the user resolve (canResolve: ended status, isAnalysisResult of
\* lib/utils) is accepted by isValidAnalysisResult and by the input schema
\* of resolveIssue.
C34_ResolveGuardAgrees ==
  \A s \in DOMAIN store :
    (store[s].type = "analysis" /\ canResolve(store[s].status, store[s].result))
      => /\ isValidAnalysisResult(store[s].result)
         /\ analysisResultSchema(store[s].result)

\* A startAnalysis of the tab is in flight: its mutation is pending.
StartAnalysisInFlight ==
  ui[Tab].component = "useSessionManager" /\ pc[Tab] # "idle"

\* C35: while a startAnalysis of useSessionManager is in flight, the
\* isAnalyzing the hook returns is true.
C35_AnalyzingWhileInFlight ==
  StartAnalysisInFlight => ExposedIsAnalyzing(ui[Tab])

\* The row of sid and the answer to the caller say: working, no result, no
\* score.
RecordedWorking(st, r, sid) ==
  /\ st[sid].status = "working"
  /\ st[sid].result = NullValue
  /\ st[sid].confidenceScore = Null
  /\ r.status_enum = "working"
  /\ r.result = NullValue
  /\ r.confidenceScore = Null

\* C36: a getSessionStatus that is answered by the service with a response
\* that has no status_enum records and returns the status working with a
\* null result and a null confidence score, whatever structured output the
\* response carries; no terminal status is recorded from it.
C36_NoStatusRecordsWorking ==
  [][\A c \in Callers, sid \in SessionIds :
       (/\ ret'.op = "getSessionStatus"
        /\ ret'.error = ""
        /\ ret'.sessionId = sid
        /\ sid \in DOMAIN remote) =>
          \A resp \in Responses(remote, sid) :
             (resp.status_enum = NoStatus /\ StatusAnswered(c, sid, resp)) =>
                /\ RecordedWorking(store', ret', sid)
                /\ ~isDevinSessionComplete(store'[sid].status)]_vars

\* getSessionStatus has answered working with no result and no score to a
\* response that carried an analysis: the state a response without
\* status_enum leaves.
C36_Witness ==
  /\ ret.op = "getSessionStatus" /\ ret.error = ""
  /\ ret.structured_output = AnalysisA
  /\ ret.sessionId \in DOMAIN store
  /\ RecordedWorking(store, ret, ret.sessionId)


====
